---- MODULE Spec2Model ----
(***************************************************************************)
(* Combined-diff hunk parsing of go-gitdiff (gitdiff/combined.go).         *)
(*                                                                         *)
(* A line is a sequence of one-character strings, the input a sequence of  *)
(* lines.  The parser is the state machine of ParseCombinedTextFragments:  *)
(* header decoding, the file-flag check, the body loop of                  *)
(* ParseCombinedTextChunk (one action per pass), its epilogue and the      *)
(* append to File.TextFragments.                                           *)
(***************************************************************************)
EXTENDS Integers, Sequences, FiniteSets, TLC

VARIABLES input, gen, lineno, eof, file, pc, frags, n, err,
          chunkStart, noLineChanges, leadingContext, trailingContext, altered

vars == <<input, gen, lineno, eof, file, pc, frags, n, err,
          chunkStart, noLineChanges, leadingContext, trailingContext, altered>>

(***************************************************************************)
(* Strings (package strings), on sequences of characters; indexes returned *)
(* are 0-based as in Go.                                                   *)
(***************************************************************************)
Min(S) == CHOOSE x \in S : \A y \in S : x <= y

\* s[from:to] of Go, 0-based and half-open
Slice(s, from, to) == SubSeq(s, from + 1, to)

HasPrefix(s, prefix) ==
    /\ Len(s) >= Len(prefix)
    /\ SubSeq(s, 1, Len(prefix)) = prefix

HasSuffix(s, suffix) ==
    /\ Len(s) >= Len(suffix)
    /\ SubSeq(s, Len(s) - Len(suffix) + 1, Len(s)) = suffix

Index(s, sub) ==
    LET hits == {i \in 0..(Len(s) - Len(sub)) : Slice(s, i, i + Len(sub)) = sub}
    IN  IF hits = {} THEN -1 ELSE Min(hits)

\* strings.SplitAfterN(s, sep, 2)
SplitAfterN2(s, sep) ==
    LET i == Index(s, sep)
    IN  IF i < 0 THEN <<s>>
        ELSE <<Slice(s, 0, i + Len(sep)), Slice(s, i + Len(sep), Len(s))>>

\* strings.SplitN(s, sep, 2)
SplitN2(s, sep) ==
    LET i == Index(s, sep)
    IN  IF i < 0 THEN <<s>>
        ELSE <<Slice(s, 0, i), Slice(s, i + Len(sep), Len(s))>>

RECURSIVE Split(_, _)
Split(s, sep) ==
    LET i == Index(s, sep)
    IN  IF i < 0 THEN <<s>>
        ELSE <<Slice(s, 0, i)>> \o Split(Slice(s, i + Len(sep), Len(s)), sep)

WhiteSpace == {" ", "\t", "\n", "\r"}

TrimSpace(s) ==
    LET keep == {i \in 1..Len(s) : s[i] \notin WhiteSpace}
    IN  IF keep = {} THEN <<>>
        ELSE SubSeq(s, Min(keep), CHOOSE i \in keep : \A j \in keep : j <= i)

TrimSuffix(s, suffix) ==
    IF HasSuffix(s, suffix) THEN SubSeq(s, 1, Len(s) - Len(suffix)) ELSE s

(***************************************************************************)
(* int64: two's complement in four 16-bit limbs, least significant first,  *)
(* so that additions wrap modulo 2^64 as Go's do.                          *)
(***************************************************************************)
LimbBase == 2^16
SignLimb == 2^15

Zero64 == <<0, 0, 0, 0>>

Add64(a, b) ==
    LET t1 == a[1] + b[1]
        t2 == a[2] + b[2] + (t1 \div LimbBase)
        t3 == a[3] + b[3] + (t2 \div LimbBase)
        t4 == a[4] + b[4] + (t3 \div LimbBase)
    IN  <<t1 % LimbBase, t2 % LimbBase, t3 % LimbBase, t4 % LimbBase>>

Neg64(a) ==
    Add64(<<LimbBase - 1 - a[1], LimbBase - 1 - a[2],
            LimbBase - 1 - a[3], LimbBase - 1 - a[4]>>, <<1, 0, 0, 0>>)

Sub64(a, b) == Add64(a, Neg64(b))

IsNeg64(a) == a[4] >= SignLimb

IsPos64(a) == ~IsNeg64(a) /\ a # Zero64

\* int64(v) for a small integer v of the model
Int64(v) ==
    LET m == IF v < 0 THEN -v ELSE v
        u == <<m % LimbBase, (m \div LimbBase) % LimbBase, 0, 0>>
    IN  IF v < 0 THEN Neg64(u) ELSE u

(***************************************************************************)
(* strconv.ParseInt(s, 10, 64)                                             *)
(***************************************************************************)
Digits == <<"0", "1", "2", "3", "4", "5", "6", "7", "8", "9">>

IsDigit(c) == \E d \in 1..10 : Digits[d] = c

DigitVal(c) == (CHOOSE d \in 1..10 : Digits[d] = c) - 1

\* un*10 + d on uint64; the fifth component is the carry out of 64 bits
MulAdd10(un, d) ==
    LET t1 == un[1] * 10 + d
        t2 == un[2] * 10 + (t1 \div LimbBase)
        t3 == un[3] * 10 + (t2 \div LimbBase)
        t4 == un[4] * 10 + (t3 \div LimbBase)
    IN  <<t1 % LimbBase, t2 % LimbBase, t3 % LimbBase, t4 % LimbBase,
          t4 \div LimbBase>>

ErrSyntax == "invalid syntax"
ErrRange == "value out of range"

\* strconv.ParseUint(s, 10, 64) from character i on, un accumulated so far
RECURSIVE ParseUintFrom(_, _, _), ParseUintNext(_, _, _)
ParseUintFrom(s, i, un) ==
    IF i > Len(s) THEN [err |-> "", val |-> un]
    ELSE IF ~IsDigit(s[i]) THEN [err |-> ErrSyntax, val |-> Zero64]
    ELSE ParseUintNext(s, i, MulAdd10(un, DigitVal(s[i])))

\* the overflow test on n1 = n*10 + d and the next character
ParseUintNext(s, i, n1) ==
    IF n1[5] # 0 THEN [err |-> ErrRange, val |-> Zero64]
    ELSE ParseUintFrom(s, i + 1, SubSeq(n1, 1, 4))

ParseUint(s) ==
    IF s = <<>> THEN [err |-> ErrSyntax, val |-> Zero64]
    ELSE ParseUintFrom(s, 1, Zero64)

\* the range tests of ParseInt on the magnitude u that ParseUint returned
ParseIntSigned(neg, u) ==
    IF u.err # "" THEN [err |-> u.err, val |-> Zero64]
    ELSE IF ~neg /\ u.val[4] >= SignLimb THEN [err |-> ErrRange, val |-> Zero64]
    ELSE IF /\ neg
            /\ \/ u.val[4] > SignLimb
               \/ u.val[4] = SignLimb /\ SubSeq(u.val, 1, 3) # <<0, 0, 0>>
         THEN [err |-> ErrRange, val |-> Zero64]
    ELSE [err |-> "", val |-> IF neg THEN Neg64(u.val) ELSE u.val]

ParseInt(s) ==
    IF s = <<>> THEN [err |-> ErrSyntax, val |-> Zero64]
    ELSE ParseIntSigned(s[1] = "-",
                        ParseUint(IF s[1] = "+" \/ s[1] = "-" THEN Tail(s) ELSE s))

(***************************************************************************)
(* parseCombinedRange                                                      *)
(***************************************************************************)
\* the uint64 rendering of -1 that some versions of git diff --cc emit
Uint64MinusOne ==
    <<"1", "8", "4", "4", "6", "7", "4", "4", "0", "7",
      "3", "7", "0", "9", "5", "5", "1", "6", "1", "5">>

NoCause == <<>>

\* rangeOfParts with a default length of 0 for a range without a comma
rangeOfParts_defaultZero(parts, st) ==
    IF st.err # ""
    THEN [cause |-> <<"bad start of range", parts[1], st.err>>,
          start |-> Zero64, end |-> Zero64]
    ELSE IF Len(parts) = 1
    THEN [cause |-> NoCause, start |-> st.val, end |-> Int64(0)]
    ELSE IF parts[2] = Uint64MinusOne
    THEN [cause |-> NoCause, start |-> st.val, end |-> Int64(-1)]
    ELSE IF ParseInt(parts[2]).err # ""
    THEN [cause |-> <<"bad end of range", parts[2], ParseInt(parts[2]).err>>,
          start |-> Zero64, end |-> Zero64]
    ELSE [cause |-> NoCause, start |-> st.val, end |-> ParseInt(parts[2]).val]

\* parseCombinedRange after strings.SplitN and the first ParseInt
rangeOfParts(parts, st) ==
    IF st.err # ""
    THEN [cause |-> <<"bad start of range", parts[1], st.err>>,
          start |-> Zero64, end |-> Zero64]
    ELSE IF Len(parts) = 1
    THEN [cause |-> NoCause, start |-> st.val, end |-> Int64(1)]
    ELSE IF parts[2] = Uint64MinusOne
    THEN [cause |-> NoCause, start |-> st.val, end |-> Int64(-1)]
    ELSE IF ParseInt(parts[2]).err # ""
    THEN [cause |-> <<"bad end of range", parts[2], ParseInt(parts[2]).err>>,
          start |-> Zero64, end |-> Zero64]
    ELSE [cause |-> NoCause, start |-> st.val, end |-> ParseInt(parts[2]).val]

splitRange(parts) == rangeOfParts(parts, ParseInt(parts[1]))

parseCombinedRange(s) == splitRange(SplitN2(s, <<",">>))

(***************************************************************************)
(* TextFragment and Line                                                   *)
(***************************************************************************)
OpContext == " "
OpDelete == "-"
OpAdd == "+"

Line(op, text) == [Op |-> op, Line |-> text]

\* &TextFragement{Comment, NewPosition, NewLines} with the old range filled in
TextFragment(comment, oldPosition, oldLines, newPosition, newLines) ==
    [Comment |-> comment,
     OldPosition |-> oldPosition, OldLines |-> oldLines,
     NewPosition |-> newPosition, NewLines |-> newLines,
     LinesAdded |-> 0, LinesDeleted |-> 0,
     LeadingContext |-> 0, TrailingContext |-> 0,
     Lines |-> <<>>]

(***************************************************************************)
(* parseCombinedHeaderRanges                                               *)
(***************************************************************************)

\* the loop over the parent ranges, from parent i on (1-based), nr the new
\* range; a token that is the empty string makes ranges[i][1:] panic
RECURSIVE parentRanges(_, _, _, _, _), parentRange(_, _, _, _, _, _)
parentRanges(ranges, comment, nr, i, st) ==
    IF i > Len(ranges) - 1 THEN st
    ELSE IF ranges[i] = <<>> THEN [st EXCEPT !.kind = "panic"]
    ELSE parentRange(ranges, comment, nr, i, st, parseCombinedRange(Tail(ranges[i])))

\* one pass of that loop, r the old range of parent i
parentRange(ranges, comment, nr, i, st, r) ==
    IF r.cause # NoCause THEN [st EXCEPT !.kind = "err", !.cause = r.cause]
    ELSE parentRanges(ranges, comment, nr, i + 1,
             [st EXCEPT !.frags = Append(@, TextFragment(comment, r.start, r.end,
                                                         nr.start, nr.end)),
                        !.negativeCount = IF IsNeg64(r.end) THEN Sub64(@, r.end) ELSE @])

\* the adjustment of every fragment by negativeCount
adjustCounts(st) ==
    IF st.kind # "ok" THEN [kind |-> st.kind, cause |-> st.cause, frags |-> <<>>]
    ELSE [kind |-> "ok", cause |-> NoCause,
          frags |-> [i \in 1..Len(st.frags) |->
                       [st.frags[i] EXCEPT !.OldLines = Add64(@, st.negativeCount),
                                           !.NewLines = Add64(@, st.negativeCount)]]]

\* parseCombinedHeaderRanges once the merged range nr is parsed
withNewRange(comment, ranges, nr) ==
    IF nr.cause # NoCause THEN [kind |-> "err", cause |-> nr.cause, frags |-> <<>>]
    ELSE adjustCounts(parentRanges(ranges, comment, nr, 1,
             [kind |-> "ok", cause |-> NoCause, frags |-> <<>>,
              negativeCount |-> IF IsNeg64(nr.end) THEN Sub64(Zero64, nr.end)
                                ELSE Zero64]))

\* ranges[parentCount][1:] panics on a token that is the empty string
parseCombinedHeaderRanges(comment, ranges) ==
    IF ranges[Len(ranges)] = <<>>
    THEN [kind |-> "panic", cause |-> NoCause, frags |-> <<>>]
    ELSE withNewRange(comment, ranges, parseCombinedRange(Tail(ranges[Len(ranges)])))

(***************************************************************************)
(* The decoding part of ParseCombinedTextFragmentHeader: what it makes of  *)
(* the current line.  kind is "none" (nil, nil), "err", "panic" or "ok".   *)
(***************************************************************************)
parentMark == "@"
minStartMark == <<"@", "@", "@">>
trailingStartMark == <<"@", " ", "-">>

NotHeader == [kind |-> "none", cause |-> NoCause, frags |-> <<>>]
InvalidHeader == [kind |-> "err", cause |-> NoCause, frags |-> <<>>]

\* from the split into range tokens on
withRanges(parentCount, comment, ranges) ==
    IF Len(ranges) # parentCount + 1 THEN InvalidHeader
    ELSE parseCombinedHeaderRanges(comment, ranges)

\* from strings.SplitAfterN on; startPos is startEnd + len(trailingStartMark) - 1
withParts(startEnd, endMark, parts) ==
    IF Len(parts) < 2 THEN InvalidHeader
    ELSE withRanges(startEnd, TrimSpace(parts[2]),
             Split(Slice(parts[1], startEnd + Len(trailingStartMark) - 1,
                         Len(parts[1]) - Len(endMark)), <<" ">>))

withEndMark(line, startEnd, endMark) ==
    withParts(startEnd, endMark, SplitAfterN2(line, endMark))

\* withStartEnd without the test of the characters before '@ -'
withStartEnd_anyMark(line, startEnd) ==
    IF startEnd < 0 THEN NotHeader
    ELSE IF \E i \in 1..startEnd : FALSE THEN NotHeader
    ELSE withEndMark(line, startEnd, <<" ", "@">> \o Slice(line, 0, startEnd))

\* from strings.Index on: the loop that counts the parents and builds endMark
withStartEnd(line, startEnd) ==
    IF startEnd < 0 THEN NotHeader
    ELSE IF \E i \in 1..startEnd : line[i] # parentMark THEN NotHeader
    ELSE withEndMark(line, startEnd, <<" ", "@">> \o Slice(line, 0, startEnd))

decodeHeader(line) ==
    IF ~HasPrefix(line, minStartMark) THEN NotHeader
    ELSE withStartEnd(line, Index(line, trailingStartMark))

(***************************************************************************)
(* The body helpers                                                        *)
(***************************************************************************)
ValidOps == {" ", "+", "-", "\\"}

\* areValidOps without the case '\\'
areValidOps_noBackslash(line, count) ==
    /\ Len(line) >= count
    /\ \A i \in 1..count : line[i] \in ValidOps \ {"\\"}

areValidOps(line, count) ==
    /\ Len(line) >= count
    /\ \A i \in 1..count : line[i] \in ValidOps

NoNewlineText ==
    <<"\\", " ", "N", "o", " ", "n", "e", "w", "l", "i", "n", "e", " ",
      "a", "t", " ", "e", "n", "d", " ", "o", "f", " ", "f", "i", "l", "e">>

isNoNewlineMarker(s) == TrimSuffix(s, <<"\n">>) = NoNewlineText

removeLastNewline(frag) ==
    IF Len(frag.Lines) > 0
    THEN [frag EXCEPT !.Lines[Len(frag.Lines)].Line = TrimSuffix(@, <<"\n">>)]
    ELSE frag

\* perParent where an added line leaves trailingContext alone
RECURSIVE perParent_addKeepsTrailing(_, _, _, _, _)
perParent_addKeepsTrailing(line, parentOps, data, idx, st) ==
    IF idx > Len(parentOps) THEN st
    ELSE LET op == parentOps[idx]
             frag == st.frags[idx]
             st1 == [st EXCEPT !.altered[idx] = FALSE]
         IN  CASE op = " " ->
                    perParent_addKeepsTrailing(line, parentOps, data, idx + 1,
                        [st1 EXCEPT !.hasContext = TRUE,
                                    !.frags[idx].Lines = Append(@, Line(OpContext, data))])
               [] op = "-" ->
                    perParent_addKeepsTrailing(line, parentOps, data, idx + 1,
                        [st1 EXCEPT !.hasRemove = TRUE,
                                    !.altered[idx] = TRUE,
                                    !.noLineChanges = FALSE,
                                    !.frags[idx].LinesDeleted = @ + 1,
                                    !.trailingContext = 0,
                                    !.frags[idx].Lines = Append(@, Line(OpDelete, data))])
               [] op = "+" ->
                    perParent_addKeepsTrailing(line, parentOps, data, idx + 1,
                        [st1 EXCEPT !.hasAdd = TRUE,
                                    !.altered[idx] = TRUE,
                                    !.noLineChanges = FALSE,
                                    !.frags[idx].LinesAdded = @ + 1,
                                    !.trailingContext = @,
                                    !.frags[idx].Lines = Append(@, Line(OpAdd, data))])
               [] op = "\\" /\ isNoNewlineMarker(line) ->
                    [st1 EXCEPT !.out = "continue",
                                !.frags[idx] = removeLastNewline(frag)]
               [] OTHER -> [st1 EXCEPT !.out = "error", !.op = op]

\* perParent where a deleted line is not counted
RECURSIVE perParent_deleteNotCounted(_, _, _, _, _)
perParent_deleteNotCounted(line, parentOps, data, idx, st) ==
    IF idx > Len(parentOps) THEN st
    ELSE LET op == parentOps[idx]
             frag == st.frags[idx]
             st1 == [st EXCEPT !.altered[idx] = FALSE]
         IN  CASE op = " " ->
                    perParent_deleteNotCounted(line, parentOps, data, idx + 1,
                        [st1 EXCEPT !.hasContext = TRUE,
                                    !.frags[idx].Lines = Append(@, Line(OpContext, data))])
               [] op = "-" ->
                    perParent_deleteNotCounted(line, parentOps, data, idx + 1,
                        [st1 EXCEPT !.hasRemove = TRUE,
                                    !.altered[idx] = TRUE,
                                    !.noLineChanges = FALSE,
                                    !.frags[idx].LinesDeleted = @,
                                    !.trailingContext = 0,
                                    !.frags[idx].Lines = Append(@, Line(OpDelete, data))])
               [] op = "+" ->
                    perParent_deleteNotCounted(line, parentOps, data, idx + 1,
                        [st1 EXCEPT !.hasAdd = TRUE,
                                    !.altered[idx] = TRUE,
                                    !.noLineChanges = FALSE,
                                    !.frags[idx].LinesAdded = @ + 1,
                                    !.trailingContext = 0,
                                    !.frags[idx].Lines = Append(@, Line(OpAdd, data))])
               [] op = "\\" /\ isNoNewlineMarker(line) ->
                    [st1 EXCEPT !.out = "continue",
                                !.frags[idx] = removeLastNewline(frag)]
               [] OTHER -> [st1 EXCEPT !.out = "error", !.op = op]

\* perParent where a space appends an Add line
RECURSIVE perParent_contextAsAdd(_, _, _, _, _)
perParent_contextAsAdd(line, parentOps, data, idx, st) ==
    IF idx > Len(parentOps) THEN st
    ELSE LET op == parentOps[idx]
             frag == st.frags[idx]
             st1 == [st EXCEPT !.altered[idx] = FALSE]
         IN  CASE op = " " ->
                    perParent_contextAsAdd(line, parentOps, data, idx + 1,
                        [st1 EXCEPT !.hasContext = TRUE,
                                    !.frags[idx].Lines = Append(@, Line(OpAdd, data))])
               [] op = "-" ->
                    perParent_contextAsAdd(line, parentOps, data, idx + 1,
                        [st1 EXCEPT !.hasRemove = TRUE,
                                    !.altered[idx] = TRUE,
                                    !.noLineChanges = FALSE,
                                    !.frags[idx].LinesDeleted = @ + 1,
                                    !.trailingContext = 0,
                                    !.frags[idx].Lines = Append(@, Line(OpDelete, data))])
               [] op = "+" ->
                    perParent_contextAsAdd(line, parentOps, data, idx + 1,
                        [st1 EXCEPT !.hasAdd = TRUE,
                                    !.altered[idx] = TRUE,
                                    !.noLineChanges = FALSE,
                                    !.frags[idx].LinesAdded = @ + 1,
                                    !.trailingContext = 0,
                                    !.frags[idx].Lines = Append(@, Line(OpAdd, data))])
               [] op = "\\" /\ isNoNewlineMarker(line) ->
                    [st1 EXCEPT !.out = "continue",
                                !.frags[idx] = removeLastNewline(frag)]
               [] OTHER -> [st1 EXCEPT !.out = "error", !.op = op]

\* the loop over parentOps of one pass of lineLoop, from parent idx on.
\* out is "next" (fell out of the loop), "continue" (continue lineLoop) or
\* "error" (invalid line operation, op the offending character)
RECURSIVE perParent(_, _, _, _, _)
perParent(line, parentOps, data, idx, st) ==
    IF idx > Len(parentOps) THEN st
    ELSE LET op == parentOps[idx]
             frag == st.frags[idx]
             st1 == [st EXCEPT !.altered[idx] = FALSE]
         IN  CASE op = " " ->
                    perParent(line, parentOps, data, idx + 1,
                        [st1 EXCEPT !.hasContext = TRUE,
                                    !.frags[idx].Lines = Append(@, Line(OpContext, data))])
               [] op = "-" ->
                    perParent(line, parentOps, data, idx + 1,
                        [st1 EXCEPT !.hasRemove = TRUE,
                                    !.altered[idx] = TRUE,
                                    !.noLineChanges = FALSE,
                                    !.frags[idx].LinesDeleted = @ + 1,
                                    !.trailingContext = 0,
                                    !.frags[idx].Lines = Append(@, Line(OpDelete, data))])
               [] op = "+" ->
                    perParent(line, parentOps, data, idx + 1,
                        [st1 EXCEPT !.hasAdd = TRUE,
                                    !.altered[idx] = TRUE,
                                    !.noLineChanges = FALSE,
                                    !.frags[idx].LinesAdded = @ + 1,
                                    !.trailingContext = 0,
                                    !.frags[idx].Lines = Append(@, Line(OpAdd, data))])
               [] op = "\\" /\ isNoNewlineMarker(line) ->
                    [st1 EXCEPT !.out = "continue",
                                !.frags[idx] = removeLastNewline(frag)]
               [] OTHER -> [st1 EXCEPT !.out = "error", !.op = op]

(***************************************************************************)
(* The line cursor                                                         *)
(***************************************************************************)
NoError == [line |-> 0, msg |-> "", cause |-> NoCause]

\* p.Line(0): the current line, "" at the end of the input
CurrentLine == IF lineno \in 1..Len(input) THEN input[lineno] ELSE <<>>

\* p.Errorf(delta, msg, ...)
Errorf(delta, msg, cause) == [line |-> lineno + delta, msg |-> msg, cause |-> cause]

\* p.Next(): the cursor after it, and whether it returned io.EOF
CursorNext ==
    IF eof THEN [lineno |-> lineno, eof |-> TRUE]
    ELSE [lineno |-> lineno + 1, eof |-> lineno + 1 > Len(input)]

(***************************************************************************)
(* The inputs.  A well-formed header line is rendered from a description   *)
(* (gen): the parent count, one range text per parent, the range text of   *)
(* the new side and the text after the closing marker.                     *)
(***************************************************************************)
MaxBody == 3

ParentCounts == {2, 3}

MaxInt64 == <<LimbBase - 1, LimbBase - 1, LimbBase - 1, SignLimb - 1>>

\* range texts with what they denote; ok is whether both numbers are written
\* as base-10 integers that fit int64
RangeTab == <<
    [txt |-> <<"1">>, start |-> Int64(1), len |-> Int64(1), ok |-> TRUE],
    [txt |-> <<"2", ",", "0">>, start |-> Int64(2), len |-> Int64(0), ok |-> TRUE],
    [txt |-> <<"3", ",", "2">>, start |-> Int64(3), len |-> Int64(2), ok |-> TRUE],
    [txt |-> <<"4", ",">> \o Uint64MinusOne,
     start |-> Int64(4), len |-> Int64(-1), ok |-> TRUE],
    [txt |-> <<"5", ",", "-", "2">>, start |-> Int64(5), len |-> Int64(-2), ok |-> TRUE],
    [txt |-> <<"6", ",", "9", "2", "2", "3", "3", "7", "2", "0", "3", "6", "8", "5", "4", "7", "7", "5", "8", "0", "7">>,
     start |-> Int64(6), len |-> MaxInt64, ok |-> TRUE],
    [txt |-> <<"5", "e">>, start |-> Zero64, len |-> Zero64, ok |-> FALSE],
    [txt |-> <<"7", ",", "6", "f">>, start |-> Zero64, len |-> Zero64, ok |-> FALSE],
    [txt |-> <<>>, start |-> Zero64, len |-> Zero64, ok |-> FALSE],
    [txt |-> <<"8", ",", "9", "2", "2", "3", "3", "7", "2", "0", "3", "6", "8", "5", "4", "7", "7", "5", "8", "0", "8">>,
     start |-> Zero64, len |-> Zero64, ok |-> FALSE] >>

\* texts after the closing marker with the comment they carry; the last one
\* has no line terminator and can only end the input
Tails == <<
    [txt |-> <<"\n">>, comment |-> <<>>],
    [txt |-> <<" ", "c", " ", "d", " ", "\n">>, comment |-> <<"c", " ", "d">>],
    [txt |-> <<"\t", "x", "\r", "\n">>, comment |-> <<"x">>],
    [txt |-> <<>>, comment |-> <<>>] >>

Ats(k) == [i \in 1..k |-> "@"]

RECURSIVE JoinOlds(_, _)
JoinOlds(olds, i) ==
    IF i > Len(olds) THEN <<>>
    ELSE <<" ", "-">> \o RangeTab[olds[i]].txt \o JoinOlds(olds, i + 1)

Render(g) ==
    Ats(g.parents + 1) \o JoinOlds(g.olds, 1) \o <<" ", "+">> \o RangeTab[g.new].txt
        \o <<" ">> \o Ats(g.parents + 1) \o Tails[g.tail].txt

NoGen == [wf |-> FALSE, parents |-> 0, olds |-> <<>>, new |-> 0, tail |-> 0]

Gen(parents, olds, new, tail) ==
    [wf |-> TRUE, parents |-> parents, olds |-> olds, new |-> new, tail |-> tail]

Tuples(S, k) == [1..k -> S]

\* body lines, by parent count
BodyPool(parents) ==
    IF parents = 2
    THEN {<<"+", "+", "a", "\n">>, <<"-", "-", "a", "\n">>, <<"+", " ", "a", "\n">>, <<" ", "+", "a", "\n">>, <<"-", " ", "a", "\n">>,
          <<" ", "-", "a", "\n">>, <<"+", "-", "b", "\n">>, <<"-", "+", "b", "\n">>, <<" ", " ", "a", "\n">>,
          <<" ", " ", "\n">>, <<"\n">>, <<"\\", " ", "N", "o", " ", "n", "e", "w", "l", "i", "n", "e", " ", "a", "t", " ", "e", "n", "d", " ", "o", "f", " ", "f", "i", "l", "e", "\n">>, <<"+", "\\", "a", "\n">>}
    ELSE {<<"+", "+", "+", "a", "\n">>, <<"-", " ", "+", "a", "\n">>, <<" ", " ", " ", "a", "\n">>, <<" ", "-", "-", "b", "\n">>,
          <<"\\", " ", "N", "o", " ", "n", "e", "w", "l", "i", "n", "e", " ", "a", "t", " ", "e", "n", "d", " ", "o", "f", " ", "f", "i", "l", "e", "\n">>, <<" ", "\n">>, <<" ", "+", "\\", "a", "\n">>, <<" ", " ", "x", "a", "\n">>}

\* lines without a terminator: one shorter than the operation block, one full
Unterminated(parents) == {<<"+">>, [i \in 1..parents |-> "+"] \o <<"c">>}

PlainHeader(parents) == Render(Gen(parents, [i \in 1..parents |-> 3], 3, 1))

\* what follows the first hunk group in the inputs of several groups
Followers == {
    <<<<"+", "+", "a", "\n">>>>,
    <<<<" ", " ", "a", "\n">>>>,
    <<>>,
    <<<<"-", "-", "a", "\n">>, <<"@", "@", "@", " ", "-", "9", ",", "0", " ", "-", "9", ",", "0", " ", "+", "9", ",", "0", " ", "@", "@", "@", "\n">>, <<" ", "+", "a", "\n">>, <<"+", "-", "b", "\n">>>>,
    <<<<"-", "-", "a", "\n">>, <<"@", "@", "@", " ", "-", "9", ",", "0", " ", "-", "9", ",", "0", " ", "+", "9", ",", "0", " ", "@", "@", "@", "\n">>, <<" ", " ", "a", "\n">>>>,
    <<<<"-", "-", "a", "\n">>, <<"@", "@", "@", " ", "-", "1", " ", "-", "1", ",", "0", " ", "+", "1", " ", "@", "@", "@", " ", "g", "\n">>, <<"+", "+", "a", "\n">>>>,
    <<<<"-", "-", "a", "\n">>, <<"@", "@", "@", " ", "-", "1", " ", "+", "1", " ", "@", "@", "@", "\n">>>>,
    <<<<"-", "-", "a", "\n">>, <<"\n">>, <<"@", "@", "@", " ", "-", "9", ",", "0", " ", "-", "9", ",", "0", " ", "+", "9", ",", "0", " ", "@", "@", "@", "\n">>>> }

HeaderScenarios ==
    {[gen |-> Gen(2, olds, new, tail), rest |-> <<<<"+", "+", "a", "\n">>>>,
      IsNew |-> FALSE, IsDelete |-> FALSE] :
        olds \in Tuples(1..Len(RangeTab), 2), new \in 1..Len(RangeTab), tail \in 1..3}
    \cup
    {[gen |-> Gen(2, olds, new, 4), rest |-> <<>>,
      IsNew |-> FALSE, IsDelete |-> FALSE] :
        olds \in Tuples({1, 4, 7}, 2), new \in {1, 5, 8}}
    \cup
    {[gen |-> Gen(3, olds, new, 1), rest |-> <<<<"+", "+", "+", "a", "\n">>>>,
      IsNew |-> FALSE, IsDelete |-> FALSE] :
        olds \in Tuples({1, 3, 4, 7}, 3), new \in {1, 3, 4, 7}}

RawLines == {
    <<"@", "@", "@", " ", "-", "1", " ", "-", "1", " ", "+", "1", "\n">>, <<"@", "@", "@", "@", " ", "-", "1", " ", "-", "1", " ", "-", "1", " ", "+", "1", " ", "@", "@", "@", "\n">>, <<"@", "@", "@", " ", "-", "1", " ", "+", "1", " ", "@", "@", "@", "\n">>, <<"@", "@", "@", " ", "-", "1", " ", "-", "1", " ", "-", "1", " ", "+", "1", " ", "@", "@", "@", "\n">>,
    <<"@", "@", "@", " ", "-", "1", " ", " ", "+", "1", " ", "@", "@", "@", "\n">>, <<"@", "@", "@", " ", "-", "1", " ", "-", "1", " ", " ", "@", "@", "@", "\n">>, <<"@", "@", "@", " ", "-", "1", " ", "x", "2", " ", "-", "3", " ", "@", "@", "@", "\n">>, <<"@", "@", " ", "-", "1", " ", "+", "1", " ", "@", "@", "\n">>,
    <<"@", "@", "@", " ", "+", "1", " ", "@", "@", "@", "\n">>, <<"@", "@", "@", "x", "@", " ", "-", "1", " ", "-", "1", " ", "+", "1", " ", "@", "@", "@", "\n">>, <<"d", "i", "f", "f", " ", "-", "-", "g", "i", "t", "\n">>, <<"\n">>,
    <<"@", "@", "@", " ", "-", "1", " ", "-", "1", " ", "+", "1", " ", "@", "@", "@", "@", "\n">>, <<" ", "@", "@", "@", " ", "-", "1", " ", "-", "1", " ", "+", "1", " ", "@", "@", "@", "\n">>, <<"@", "@", "@", " ", "-", "1", ",", "2", ",", "3", " ", "-", "1", " ", "+", "+", "1", " ", "@", "@", "@", "\n">> }

RawInputs ==
    {<<l>> \o rest : l \in RawLines, rest \in {<<>>, <<<<"+", "+", "a", "\n">>>>}} \cup {<<>>}

\* a two-parent group with data of several characters
ExampleInput ==
    << <<"@", "@", "@", " ", "-", "1", " ", "-", "1", " ", "+", "1", " ", "@", "@", "@", "\n">>,
       <<"-", " ", "o", "l", "d", "\n">>,
       <<"+", " ", "n", "e", "w", "\n">> >>

\* a line without terminator can only be the last one: what ends a body
LastLines(parents) == {<<>>} \cup {<<l>> : l \in Unterminated(parents)}

GroupScenarios ==
    {[gen |-> Gen(2, olds, new, 1), rest |-> rest, IsNew |-> isNew, IsDelete |-> isDelete] :
        olds \in Tuples({1, 2, 4, 6}, 2), new \in {1, 2, 4, 6},
        rest \in Followers, isNew \in BOOLEAN, isDelete \in BOOLEAN}

(***************************************************************************)
(* The parser.  pc is the position in ParseCombinedTextFragments:          *)
(*   "header"  about to call ParseCombinedTextFragmentHeader               *)
(*   "check"   the header returned fragments, before the file-flag loop     *)
(*   "chunk"   about to call ParseCombinedTextChunk                        *)
(*   "loop"    at the top of lineLoop                                      *)
(*   "post"    after lineLoop                                              *)
(*   "append"  ParseCombinedTextChunk returned nil                         *)
(*   "done"    ParseCombinedTextFragments returned (n, err)                *)
(*   "panic"   a run-time panic unwound the call                           *)
(***************************************************************************)
InitWith(g, in, isNew, isDelete) ==
    /\ gen = g
    /\ input = in
    /\ file = [IsNew |-> isNew, IsDelete |-> isDelete, TextFragments |-> <<>>]
    /\ lineno = 1
    /\ eof = (Len(in) = 0)
    /\ pc = "header"
    /\ frags = <<>>
    /\ n = 0
    /\ err = NoError
    /\ chunkStart = 0
    /\ noLineChanges = TRUE
    /\ leadingContext = 0
    /\ trailingContext = 0
    /\ altered = <<>>

Init ==
    \/ \E sc \in HeaderScenarios \cup GroupScenarios :
          InitWith(sc.gen, <<Render(sc.gen)>> \o sc.rest, sc.IsNew, sc.IsDelete)
    \/ \E in \in RawInputs \cup {ExampleInput} : InitWith(NoGen, in, FALSE, FALSE)
    \/ \E p \in ParentCounts, k \in 0..MaxBody :
          \E b \in Tuples(BodyPool(p), k), last \in LastLines(p) :
             /\ k + Len(last) <= MaxBody
             /\ InitWith(NoGen, <<PlainHeader(p)>> \o b \o last, FALSE, FALSE)

chunkLocals == <<chunkStart, noLineChanges, leadingContext, trailingContext, altered>>

\* what ParseCombinedTextFragmentHeader returns and what its caller makes of
\* it: r is the decoded line, c the cursor after p.Next()
HeaderReturns(r, c) ==
    CASE r.kind = "ok" ->
           /\ frags' = r.frags
           /\ lineno' = c.lineno
           /\ eof' = c.eof
           /\ pc' = "check"
           /\ err' = err
      [] r.kind = "err" ->
           /\ err' = Errorf(0, "invalid fragment header", r.cause)
           /\ pc' = "done"
           /\ UNCHANGED <<frags, lineno, eof>>
      [] r.kind = "none" ->
           /\ pc' = "done"
           /\ UNCHANGED <<frags, lineno, eof, err>>
      [] r.kind = "panic" ->
           /\ pc' = "panic"
           /\ UNCHANGED <<frags, lineno, eof, err>>

ParseCombinedTextFragmentHeader ==
    /\ pc = "header"
    /\ HeaderReturns(decodeHeader(CurrentLine), CursorNext)
    /\ UNCHANGED <<input, gen, file, n, chunkLocals>>

\* the first fragment, in order, that one of the two file-flag tests rejects
FirstRejected ==
    LET bad == {i \in 1..Len(frags) :
                  \/ file.IsNew /\ IsPos64(frags[i].OldLines)
                  \/ file.IsDelete /\ IsPos64(frags[i].NewLines)}
    IN  IF bad = {} THEN 0 ELSE Min(bad)

\* CheckFileFlags reporting the current line for a new file
CheckFileFlags_currentLine ==
    /\ pc = "check"
    /\ LET i == FirstRejected
       IN  IF i = 0 THEN pc' = "chunk" /\ err' = err
           ELSE /\ pc' = "done"
                /\ err' = IF file.IsNew /\ IsPos64(frags[i].OldLines)
                          THEN Errorf(0, "new file depends on old contents", NoCause)
                          ELSE Errorf(-1, "deleted file still has contents", NoCause)
    /\ UNCHANGED <<input, gen, lineno, eof, file, frags, n, chunkLocals>>

CheckFileFlags ==
    /\ pc = "check"
    /\ LET i == FirstRejected
       IN  IF i = 0 THEN pc' = "chunk" /\ err' = err
           ELSE /\ pc' = "done"
                /\ err' = IF file.IsNew /\ IsPos64(frags[i].OldLines)
                          THEN Errorf(-1, "new file depends on old contents", NoCause)
                          ELSE Errorf(-1, "deleted file still has contents", NoCause)
    /\ UNCHANGED <<input, gen, lineno, eof, file, frags, n, chunkLocals>>

\* ParseCombinedTextChunk up to lineLoop
ParseCombinedTextChunkEnter ==
    /\ pc = "chunk"
    /\ IF CurrentLine = <<>>
       THEN /\ pc' = "done"
            /\ err' = Errorf(0, "no content following fragment header", NoCause)
            /\ UNCHANGED <<noLineChanges, leadingContext, trailingContext, altered>>
       ELSE /\ pc' = "loop"
            /\ err' = err
            /\ noLineChanges' = TRUE
            /\ leadingContext' = 0
            /\ trailingContext' = 0
            /\ altered' = [i \in 1..Len(frags) |-> FALSE]
    /\ chunkStart' = lineno
    /\ UNCHANGED <<input, gen, lineno, eof, file, frags, n>>

\* the rest of a pass after the loop over parentOps with result r
PassEnds(r, c) ==
    /\ frags' = r.frags
    /\ altered' = r.altered
    /\ noLineChanges' = r.noLineChanges
    /\ chunkStart' = chunkStart
    /\ CASE r.out = "continue" ->
              /\ pc' = "loop"
              /\ trailingContext' = r.trailingContext
              /\ UNCHANGED <<lineno, eof, err, leadingContext>>
         [] r.out = "error" ->
              /\ pc' = "done"
              /\ err' = Errorf(0, "invalid line operation", <<r.op>>)
              /\ trailingContext' = r.trailingContext
              /\ UNCHANGED <<lineno, eof, leadingContext>>
         [] r.out = "next" ->
              /\ leadingContext' =
                    IF ~r.hasRemove /\ ~r.hasAdd /\ r.hasContext /\ r.noLineChanges
                    THEN leadingContext + 1 ELSE leadingContext
              /\ trailingContext' =
                    IF ~r.hasRemove /\ ~r.hasAdd /\ r.hasContext /\ ~r.noLineChanges
                    THEN r.trailingContext + 1 ELSE r.trailingContext
              /\ lineno' = c.lineno
              /\ eof' = c.eof
              /\ pc' = IF c.eof THEN "post" ELSE "loop"
              /\ err' = err

\* a pass over a line with valid operations: parentOps and data
Pass(line, parentOps, data) ==
    PassEnds(perParent(line, parentOps, data, 1,
                 [out |-> "next", op |-> "", frags |-> frags, altered |-> altered,
                  hasAdd |-> FALSE, hasRemove |-> FALSE, hasContext |-> FALSE,
                  noLineChanges |-> noLineChanges,
                  trailingContext |-> trailingContext]),
             CursorNext)

\* one pass of lineLoop
LineLoop ==
    /\ pc = "loop"
    /\ IF ~areValidOps(CurrentLine, Len(frags))
       THEN /\ pc' = "post"
            /\ UNCHANGED <<lineno, eof, frags, err, chunkLocals>>
       ELSE IF Slice(CurrentLine, 0, Len(frags)) = <<"\n">>
       THEN Pass(CurrentLine, <<>>, <<"\n">>)
       ELSE Pass(CurrentLine, Slice(CurrentLine, 0, Len(frags)),
                 Slice(CurrentLine, Len(frags), Len(CurrentLine)))
    /\ UNCHANGED <<input, gen, file, n>>

\* ParseCombinedTextChunkExit without the test of noLineChanges
ParseCombinedTextChunkExit_noCheck ==
    /\ pc = "post"
    /\ IF FALSE
       THEN /\ pc' = "done"
            /\ err' = Errorf(0, "fragment contains no changes", NoCause)
            /\ UNCHANGED <<lineno, eof, frags>>
       ELSE /\ pc' = "append"
            /\ err' = err
            /\ IF isNoNewlineMarker(CurrentLine)
               THEN /\ lineno' = CursorNext.lineno
                    /\ eof' = CursorNext.eof
                    /\ frags' = [i \in 1..Len(frags) |->
                                   [removeLastNewline(frags[i])
                                      EXCEPT !.LeadingContext = leadingContext,
                                             !.TrailingContext = trailingContext]]
               ELSE /\ UNCHANGED <<lineno, eof>>
                    /\ frags' = [i \in 1..Len(frags) |->
                                   [frags[i]
                                      EXCEPT !.LeadingContext = leadingContext,
                                             !.TrailingContext = trailingContext]]
    /\ UNCHANGED <<input, gen, file, n, chunkLocals>>

\* ParseCombinedTextChunk after lineLoop
ParseCombinedTextChunkExit ==
    /\ pc = "post"
    /\ IF noLineChanges
       THEN /\ pc' = "done"
            /\ err' = Errorf(0, "fragment contains no changes", NoCause)
            /\ UNCHANGED <<lineno, eof, frags>>
       ELSE /\ pc' = "append"
            /\ err' = err
            /\ IF isNoNewlineMarker(CurrentLine)
               THEN /\ lineno' = CursorNext.lineno
                    /\ eof' = CursorNext.eof
                    /\ frags' = [i \in 1..Len(frags) |->
                                   [removeLastNewline(frags[i])
                                      EXCEPT !.LeadingContext = leadingContext,
                                             !.TrailingContext = trailingContext]]
               ELSE /\ UNCHANGED <<lineno, eof>>
                    /\ frags' = [i \in 1..Len(frags) |->
                                   [frags[i]
                                      EXCEPT !.LeadingContext = leadingContext,
                                             !.TrailingContext = trailingContext]]
    /\ UNCHANGED <<input, gen, file, n, chunkLocals>>

\* AppendFragments counting one per group
AppendFragments_countsGroups ==
    /\ pc = "append"
    /\ file' = [file EXCEPT !.TextFragments = @ \o frags]
    /\ n' = n + 1
    /\ pc' = "header"
    /\ UNCHANGED <<input, gen, lineno, eof, frags, err, chunkLocals>>

\* the end of a pass of the loop of ParseCombinedTextFragments
AppendFragments ==
    /\ pc = "append"
    /\ file' = [file EXCEPT !.TextFragments = @ \o frags]
    /\ n' = n + Len(frags)
    /\ pc' = "header"
    /\ UNCHANGED <<input, gen, lineno, eof, frags, err, chunkLocals>>

Next ==
    \/ ParseCombinedTextFragmentHeader
    \/ CheckFileFlags
    \/ ParseCombinedTextChunkEnter
    \/ LineLoop
    \/ ParseCombinedTextChunkExit
    \/ AppendFragments

Spec == Init /\ [][Next]_vars

(***************************************************************************)
(* Vocabulary of the properties: the shape of body lines, read off the     *)
(* input and not off the parser.                                           *)
(***************************************************************************)
Max(S) == CHOOSE x \in S : \A y \in S : y <= x

ParentCount == Len(frags)

BodyShaped(line, parents) ==
    /\ Len(line) >= parents
    /\ \A i \in 1..parents : line[i] = " " \/ line[i] = "+" \/ line[i] = "-" \/ line[i] = "\\"

HasChange(line, parents) ==
    \E i \in 1..parents : i <= Len(line) /\ (line[i] = "+" \/ line[i] = "-")

AllSpace(line, parents) ==
    /\ Len(line) >= parents
    /\ \A i \in 1..parents : line[i] = " "

\* the first line from line number from on that is not body-shaped; one past
\* the input when there is none (the current line is then "")
FirstNonBody(from, parents) ==
    Min({j \in from..Len(input) : ~BodyShaped(input[j], parents)} \cup {Len(input) + 1})

LineAt(j) == IF j \in 1..Len(input) THEN input[j] ELSE <<>>

MarkerAt(j) ==
    LineAt(j) = NoNewlineText \/ LineAt(j) = NoNewlineText \o <<"\n">>

ChangeLines(from, to, parents) == {j \in from..to : HasChange(input[j], parents)}

MsgNoChanges == "fragment contains no changes"
MsgNoContent == "no content following fragment header"
MsgInvalidOp == "invalid line operation"
MsgInvalidHeader == "invalid fragment header"
MsgNewFile == "new file depends on old contents"
MsgDeleted == "deleted file still has contents"

\* the description of the first line: every range text is well formed
GenOk ==
    /\ gen.wf
    /\ RangeTab[gen.new].ok
    /\ \A i \in 1..gen.parents : RangeTab[gen.olds[i]].ok

GenNonNegative ==
    /\ ~IsNeg64(RangeTab[gen.new].len)
    /\ \A i \in 1..gen.parents : ~IsNeg64(RangeTab[gen.olds[i]].len)

\* ParseCombinedTextFragmentHeader is about to read the described line
AtFirstHeader == pc = "header" /\ lineno = 1 /\ n = 0

\* it has returned the fragments of the described line
FirstHeaderParsed == pc = "check" /\ lineno = 2 /\ n = 0

(***************************************************************************)
(* C1: a header of k >= 3 '@', k-1 old ranges and one new range, all with  *)
(* non-negative lengths, then ' ' and k '@', decodes into k-1 fragments in *)
(* token order, fragment i with the position and length of old range i,    *)
(* all with the position and length of the new range and the trimmed text  *)
(* after the closing marker as Comment, and the cursor moves one line on.  *)
(***************************************************************************)
C1_HeaderDecoded ==
    [][(AtFirstHeader /\ GenOk /\ GenNonNegative) =>
          /\ pc' = "check"
          /\ lineno' = lineno + 1
          /\ Len(frags') = gen.parents
          /\ \A i \in 1..gen.parents :
                frags'[i] = TextFragment(Tails[gen.tail].comment,
                                RangeTab[gen.olds[i]].start, RangeTab[gen.olds[i]].len,
                                RangeTab[gen.new].start, RangeTab[gen.new].len)]_vars

C1_Witness ==
    /\ FirstHeaderParsed /\ GenOk /\ GenNonNegative
    /\ gen.parents = 3 /\ Len(frags) = 3
    /\ frags[1].OldPosition # frags[2].OldPosition

(***************************************************************************)
(* C2: a pass of the body loop that consumes a line appends exactly one    *)
(* Line to every fragment: Context, Delete or Add as the fragment's        *)
(* operation character is space, '-' or '+', with the rest of the line as  *)
(* text.  On successful return the fragments have as many Lines, with the  *)
(* same text at each index, and LinesAdded and LinesDeleted count the Add  *)
(* and Delete entries of the fragment's own Lines.                         *)
(***************************************************************************)
OpOf(c) == IF c = "-" THEN OpDelete ELSE IF c = "+" THEN OpAdd ELSE OpContext

CountOp(lines, op) == Cardinality({j \in 1..Len(lines) : lines[j].Op = op})

C2_Consumed ==
    [][(pc = "loop" /\ lineno' = lineno + 1) =>
          \A i \in 1..ParentCount :
             /\ CurrentLine[i] \in {" ", "-", "+"}
             /\ frags'[i].Lines =
                   Append(frags[i].Lines,
                          Line(OpOf(CurrentLine[i]),
                               SubSeq(CurrentLine, ParentCount + 1, Len(CurrentLine))))]_vars

C2_Returned ==
    pc = "append" =>
       \A i \in 1..ParentCount :
          /\ Len(frags[i].Lines) = Len(frags[1].Lines)
          /\ \A j \in 1..Len(frags[i].Lines) : frags[i].Lines[j].Line = frags[1].Lines[j].Line
          /\ frags[i].LinesAdded = CountOp(frags[i].Lines, OpAdd)
          /\ frags[i].LinesDeleted = CountOp(frags[i].Lines, OpDelete)

C2_PerParentLines == C2_Consumed /\ []C2_Returned

C2_Witness ==
    /\ pc = "append"
    /\ Len(frags) = 3
    /\ Len(frags[1].Lines) >= 2
    /\ frags[1].Lines[1].Op # frags[2].Lines[1].Op
    /\ frags[1].LinesDeleted > 0 /\ frags[3].LinesAdded > 0

(***************************************************************************)
(* C3 as stated: when ParseCombinedTextChunk returns nil, the cursor is on *)
(* the first line that is shorter than N characters or has a character     *)
(* outside {space, '+', '-', '\'} among its first N.                       *)
(***************************************************************************)
C3_CursorOnFirstNonBody ==
    pc = "append" => lineno = FirstNonBody(chunkStart, ParentCount)

(***************************************************************************)
(* C3 amended: when ParseCombinedTextChunk returns nil or 'fragment        *)
(* contains no changes' it has consumed the lines up to the first line     *)
(* that is not body-shaped; the cursor is on that line, or one past it     *)
(* when the call succeeds and that line is the no-newline marker.  The     *)
(* declared OldLines and NewLines are not changed by the body parser and   *)
(* a loop that ends after a change is followed by a nil return whatever    *)
(* they are.                                                               *)
(***************************************************************************)
C3_Stop ==
    (pc = "append" \/ (pc = "done" /\ err.msg = MsgNoChanges)) =>
       LET stop == FirstNonBody(chunkStart, ParentCount)
       IN  lineno = IF pc = "append" /\ MarkerAt(stop) THEN stop + 1 ELSE stop

C3_CountsUntouched ==
    [][(pc \in {"chunk", "loop", "post"}) =>
         (/\ Len(frags') = Len(frags)
          /\ \A i \in 1..Len(frags) :
                /\ frags'[i].OldLines = frags[i].OldLines
                /\ frags'[i].NewLines = frags[i].NewLines
                /\ frags'[i].OldPosition = frags[i].OldPosition
                /\ frags'[i].NewPosition = frags[i].NewPosition)]_vars

C3_NoCountError ==
    [][(pc = "post" /\ ChangeLines(chunkStart, lineno - 1, ParentCount) # {}) =>
          pc' = "append"]_vars

C3_EndByShape == []C3_Stop /\ C3_CountsUntouched /\ C3_NoCountError

\* the declared old length disagrees with the body and the group ended at a
\* line of the input
C3_Witness ==
    /\ pc = "append"
    /\ lineno <= Len(input)
    /\ lineno > chunkStart
    /\ \E i \in 1..ParentCount :
          frags[i].OldLines # Int64(Len(frags[i].Lines) - CountOp(frags[i].Lines, OpAdd))

(***************************************************************************)
(* C4 as stated: with A the sum of the magnitudes of the negative decoded  *)
(* lengths, every returned fragment has OldLines = its decoded old length  *)
(* + A and NewLines = the decoded new length + A, the positions as         *)
(* decoded, and neither OldLines nor NewLines negative.                    *)
(***************************************************************************)
Magnitude(v) == IF IsNeg64(v) THEN Neg64(v) ELSE Zero64

RECURSIVE OldMagnitudes(_)
OldMagnitudes(i) ==
    IF i > gen.parents THEN Zero64
    ELSE Add64(Magnitude(RangeTab[gen.olds[i]].len), OldMagnitudes(i + 1))

GenAdjustment == Add64(Magnitude(RangeTab[gen.new].len), OldMagnitudes(1))

C4_Adjusted ==
    (FirstHeaderParsed /\ GenOk) =>
       /\ Len(frags) = gen.parents
       /\ \A i \in 1..gen.parents :
             /\ frags[i].OldLines = Add64(RangeTab[gen.olds[i]].len, GenAdjustment)
             /\ frags[i].NewLines = Add64(RangeTab[gen.new].len, GenAdjustment)
             /\ frags[i].OldPosition = RangeTab[gen.olds[i]].start
             /\ frags[i].NewPosition = RangeTab[gen.new].start
             /\ ~IsNeg64(frags[i].OldLines)
             /\ ~IsNeg64(frags[i].NewLines)

(***************************************************************************)
(* C5: on successful return LeadingContext is the number of consumed       *)
(* all-space lines before the first consumed line with a '+' or '-',       *)
(* TrailingContext the number of all-space lines after the last such line, *)
(* and all fragments of the group carry the same two values.               *)
(***************************************************************************)
C5_Context ==
    pc = "append" =>
       LET last == FirstNonBody(chunkStart, ParentCount) - 1
           changes == ChangeLines(chunkStart, last, ParentCount)
           leading == {j \in chunkStart..last :
                         AllSpace(input[j], ParentCount) /\ j < Min(changes)}
           trailing == {j \in chunkStart..last :
                          AllSpace(input[j], ParentCount) /\ j > Max(changes)}
       IN  /\ changes # {}
           /\ \A i \in 1..ParentCount :
                 /\ frags[i].LeadingContext = Cardinality(leading)
                 /\ frags[i].TrailingContext = Cardinality(trailing)

C5_Witness ==
    /\ pc = "append"
    /\ frags[1].LeadingContext = 1
    /\ frags[1].TrailingContext = 1
    /\ frags[2].TrailingContext = 1

(***************************************************************************)
(* The header shapes, read off the line.                                   *)
(***************************************************************************)
\* no '@@@' prefix, no '@ -', or something else than '@' before the first '@ -'
NotCombinedHeader(line) ==
    \/ Len(line) < 3
    \/ \E i \in 1..3 : line[i] # "@"
    \/ Index(line, <<"@", " ", "-">>) < 0
    \/ \E i \in 1..Index(line, <<"@", " ", "-">>) : line[i] # "@"

\* the number of leading '@'
LeadingAts(line) == Max({k \in 0..Len(line) : \A i \in 1..k : line[i] = "@"})

ClosingMarker(line) == <<" ">> \o [i \in 1..LeadingAts(line) |-> "@"]

\* the range tokens: the text from the first '-' to the closing marker, split
\* at the spaces
RangeTokens(line) ==
    LET k == LeadingAts(line)
        close == Index(line, ClosingMarker(line))
    IN  Split(SubSeq(line, k + 2, close), <<" ">>)

IsInteger(text) ==
    LET digits == IF text # <<>> /\ (text[1] = "+" \/ text[1] = "-") THEN Tail(text) ELSE text
    IN  /\ digits # <<>>
        /\ \A i \in 1..Len(digits) : \E d \in 0..9 : digits[i] = Digits[d + 1]

Unsigned(token) == IF token = <<>> THEN <<>> ELSE Tail(token)

StartText(token) ==
    LET comma == Index(Unsigned(token), <<",">>)
    IN  IF comma < 0 THEN Unsigned(token) ELSE SubSeq(Unsigned(token), 1, comma)

HasCount(token) == Index(Unsigned(token), <<",">>) >= 0

CountText(token) ==
    SubSeq(Unsigned(token), Index(Unsigned(token), <<",">>) + 2, Len(Unsigned(token)))

BadRange(token) ==
    \/ ~IsInteger(StartText(token))
    \/ HasCount(token) /\ ~IsInteger(CountText(token))

LacksClosingMarker(line) == Index(line, ClosingMarker(line)) < 0

\* a recognized header start without closing marker, with a wrong number of
\* range tokens, or with a start or count that is not a base-10 integer
MalformedHeader(line) ==
    /\ ~NotCombinedHeader(line)
    /\ \/ LacksClosingMarker(line)
       \/ Len(RangeTokens(line)) # LeadingAts(line)
       \/ \E t \in 1..Len(RangeTokens(line)) : BadRange(RangeTokens(line)[t])

(***************************************************************************)
(* C6: the count n is the number of fragments appended to                  *)
(* File.TextFragments, at every return and all along; fragments are        *)
(* appended only when ParseCombinedTextChunk has returned nil, the whole   *)
(* group at once in parent order behind those already there, which are     *)
(* left as they are; a failed header check or body parse appends nothing;  *)
(* a current line that is not a combined header ends the call with a nil   *)
(* error.                                                                  *)
(***************************************************************************)
C6_Count == n = Len(file.TextFragments)

C6_Steps ==
    [][/\ (pc = "append") =>
             /\ file'.TextFragments = file.TextFragments \o frags
             /\ n' = n + Len(frags)
       /\ (pc # "append") => (file' = file /\ n' = n)
       /\ (pc' = "done" /\ err'.msg # "") => (file' = file /\ n' = n)
       /\ (pc = "header" /\ NotCombinedHeader(CurrentLine)) =>
             (pc' = "done" /\ err' = NoError /\ n' = n)]_vars

C6_Appended == []C6_Count /\ C6_Steps

\* the first group was appended, the body of the second one failed
C6_Witness ==
    /\ pc = "done"
    /\ err.msg = MsgNoChanges
    /\ n = 2
    /\ Len(file.TextFragments) = 2
    /\ file.TextFragments[1].Lines # <<>>

(***************************************************************************)
(* C7 as stated: on a File with IsNew the call fails with 'new file        *)
(* depends on old contents' whenever a fragment of the parsed header has   *)
(* an old length > 0, and on a File with IsDelete it fails with 'deleted   *)
(* file still has contents' whenever the new length is > 0; no body line   *)
(* is consumed, nothing is appended and the error carries the line number  *)
(* of the header.                                                          *)
(***************************************************************************)
SomeOldLines == \E i \in 1..Len(frags) : IsPos64(frags[i].OldLines)
SomeNewLines == \E i \in 1..Len(frags) : IsPos64(frags[i].NewLines)

\* the call fails at the header with one of msgs and the cursor stays put
RejectedWith(msgs) ==
    /\ pc' = "done"
    /\ err'.msg \in msgs
    /\ err'.line = lineno - 1
    /\ lineno' = lineno
    /\ file' = file
    /\ n' = n

C7_FlagErrors ==
    [][/\ (pc = "check" /\ file.IsNew /\ SomeOldLines) => RejectedWith({MsgNewFile})
       /\ (pc = "check" /\ file.IsDelete /\ SomeNewLines) => RejectedWith({MsgDeleted})]_vars

(***************************************************************************)
(* C7 amended: the same with only IsNew set, and with only IsDelete set;   *)
(* on a File with both flags set the call fails as well, with one of the   *)
(* two messages.                                                           *)
(***************************************************************************)
C7_FlagErrorsOneFlag ==
    [][/\ (pc = "check" /\ file.IsNew /\ ~file.IsDelete /\ SomeOldLines) =>
             RejectedWith({MsgNewFile})
       /\ (pc = "check" /\ file.IsDelete /\ ~file.IsNew /\ SomeNewLines) =>
             RejectedWith({MsgDeleted})
       /\ (pc = "check" /\ file.IsNew /\ file.IsDelete /\ (SomeOldLines \/ SomeNewLines)) =>
             RejectedWith({MsgNewFile, MsgDeleted})]_vars

C7_Witness ==
    /\ pc = "done"
    /\ err.msg = MsgNewFile
    /\ err.line = 1
    /\ file.IsNew /\ ~file.IsDelete
    /\ lineno = 2
    /\ ~IsPos64(frags[1].OldLines) /\ IsPos64(frags[2].OldLines)

(***************************************************************************)
(* C8 as stated: ParseCombinedTextChunk returns 'fragment contains no      *)
(* changes' exactly when the lines it consumed carry no '+' and no '-'.    *)
(***************************************************************************)
ChunkReturned ==
    \/ pc = "append"
    \/ pc = "done" /\ err.msg \in {MsgNoChanges, MsgNoContent, MsgInvalidOp}

C8_NoChangesIff ==
    ChunkReturned =>
       (ChangeLines(chunkStart, lineno - 1, ParentCount) = {} <=> err.msg = MsgNoChanges)

(***************************************************************************)
(* C8 amended: when the body loop has ended, at a line that is not         *)
(* body-shaped or at the end of the input, and no consumed line carries a  *)
(* '+' or '-', the call returns 'fragment contains no changes'; it never   *)
(* returns that error when a consumed line carries a '+' or '-'.           *)
(***************************************************************************)
C8_LoopEnded ==
    [][(pc = "post" /\ ChangeLines(chunkStart, lineno - 1, ParentCount) = {}) =>
          (pc' = "done" /\ err'.msg = MsgNoChanges)]_vars

C8_OnlyWithoutChange ==
    (pc = "done" /\ err.msg = MsgNoChanges) =>
       ChangeLines(chunkStart, lineno - 1, ParentCount) = {}

C8_NoChanges == C8_LoopEnded /\ []C8_OnlyWithoutChange

\* a body of context lines only
C8_Witness ==
    /\ pc = "done"
    /\ err.msg = MsgNoChanges
    /\ lineno > chunkStart + 1
    /\ \A j \in chunkStart..(lineno - 1) : AllSpace(input[j], ParentCount)

(***************************************************************************)
(* C9: on a current line without '@@@' prefix, without '@ -', or with      *)
(* something else than '@' before the first '@ -', the header parser       *)
(* returns nothing and no error and leaves the cursor where it is; no      *)
(* other line gives that outcome.                                          *)
(***************************************************************************)
C9_NotAHeader ==
    [][/\ (pc = "header" /\ NotCombinedHeader(CurrentLine)) =>
             /\ pc' = "done"
             /\ err' = NoError
             /\ lineno' = lineno
             /\ eof' = eof
       /\ (pc = "header" /\ pc' = "done" /\ err' = NoError) =>
             NotCombinedHeader(CurrentLine)]_vars

\* a line that starts with '@@@' and is no combined header
C9_Witness ==
    /\ pc = "done"
    /\ err = NoError
    /\ n = 0
    /\ lineno = 1
    /\ Len(input) = 2
    /\ HasPrefix(input[1], <<"@", "@", "@">>)

(***************************************************************************)
(* C10 as stated: a recognized header start that lacks the closing marker, *)
(* has a number of range tokens other than N+1, or a start or count that   *)
(* is not a base-10 integer, gives the error 'invalid fragment header' at  *)
(* the line number of the header, no fragments and an unmoved cursor; when *)
(* the new range is among the malformed ones, the cause is the new range's.*)
(***************************************************************************)
NewToken(line) == RangeTokens(line)[Len(RangeTokens(line))]

C10_InvalidHeader ==
    [][(pc = "header" /\ MalformedHeader(CurrentLine)) =>
          /\ pc' = "done"
          /\ err'.msg = MsgInvalidHeader
          /\ err'.line = lineno
          /\ lineno' = lineno
          /\ eof' = eof
          /\ frags' = frags
          /\ (/\ ~LacksClosingMarker(CurrentLine)
              /\ Len(RangeTokens(CurrentLine)) = LeadingAts(CurrentLine)
              /\ BadRange(NewToken(CurrentLine)))
             => (/\ err'.cause # NoCause
                 /\ err'.cause[2] \in {StartText(NewToken(CurrentLine)),
                                       CountText(NewToken(CurrentLine))})]_vars

(***************************************************************************)
(* Vocabulary of the no-newline marker.                                    *)
(***************************************************************************)
\* lines with the terminator of the last entry removed
TrimLast(lines) ==
    IF lines = <<>> THEN lines
    ELSE [lines EXCEPT ![Len(lines)].Line = TrimSuffix(@, <<"\n">>)]

\* the cursor is on a marker line that follows body lines of the group, of
\* which one carries a change, and no body line follows the marker
AtFinalMarker ==
    /\ MarkerAt(lineno)
    /\ lineno > chunkStart
    /\ \A j \in chunkStart..(lineno - 1) : BodyShaped(input[j], ParentCount)
    /\ ChangeLines(chunkStart, lineno - 1, ParentCount) # {}
    /\ ~BodyShaped(LineAt(lineno + 1), ParentCount)

\* the cursor is on a marker line between two body lines of the group
AtInnerMarker ==
    /\ MarkerAt(lineno)
    /\ lineno > chunkStart
    /\ \A j \in chunkStart..(lineno - 1) : BodyShaped(input[j], ParentCount)
    /\ BodyShaped(LineAt(lineno + 1), ParentCount)

(***************************************************************************)
(* C11 as stated: for every parent count, when the marker follows the last *)
(* body line of the group, the body parser does not fail and does not stay *)
(* on the marker: it returns nil with the terminator removed from the last *)
(* Lines entry of every fragment, the other entries as they were, and the  *)
(* cursor one line past the marker.                                        *)
(***************************************************************************)
C11_FinalMarker ==
    [][/\ (pc = "loop" /\ AtFinalMarker) =>
             /\ pc' # "done"
             /\ pc' # "loop" \/ lineno' = lineno + 1
       /\ (pc = "post" /\ AtFinalMarker) =>
             /\ pc' = "append"
             /\ lineno' = lineno + 1
             /\ \A i \in 1..ParentCount : frags'[i].Lines = TrimLast(frags[i].Lines)]_vars

(***************************************************************************)
(* C12 as stated: a pass of the body loop on a marker line between two     *)
(* body lines moves the cursor past the marker, stays in the loop of the   *)
(* same group and removes the terminator of the line before the marker,    *)
(* changing nothing else in the Lines.                                     *)
(***************************************************************************)
C12_InnerMarker ==
    [][(pc = "loop" /\ AtInnerMarker) =>
          /\ pc' = "loop"
          /\ lineno' = lineno + 1
          /\ \E i \in 1..ParentCount : frags'[i].Lines = TrimLast(frags[i].Lines)
          /\ \A i \in 1..ParentCount :
                frags'[i].Lines \in {frags[i].Lines, TrimLast(frags[i].Lines)}]_vars

(***************************************************************************)
(* C13 as stated: in the fragments that the header parser returns, every   *)
(* old length that was decoded negative is 0, and the new length is 0 when *)
(* it was decoded negative, however many lengths are negative and whatever *)
(* their values.                                                           *)
(***************************************************************************)
C13_NegativeBecomesZero ==
    (FirstHeaderParsed /\ GenOk) =>
       \A i \in 1..gen.parents :
          /\ IsNeg64(RangeTab[gen.olds[i]].len) => frags[i].OldLines = Zero64
          /\ IsNeg64(RangeTab[gen.new].len) => frags[i].NewLines = Zero64

(***************************************************************************)
(* C14 as stated: the input '@@@ -1 -1 +1 @@@', '- old', '+ new' gives 2   *)
(* fragments, the first with Lines (Delete, "old\n"), (Add, "new\n"), the  *)
(* second with Lines (Context, "old\n"), (Add, "new\n").                   *)
(***************************************************************************)
OldText == <<"o", "l", "d", "\n">>
NewText == <<"n", "e", "w", "\n">>

C14_ExampleAsStated ==
    (input = ExampleInput /\ pc = "done") =>
       /\ n = 2
       /\ Len(file.TextFragments) = 2
       /\ file.TextFragments[1].Lines = <<Line(OpDelete, OldText), Line(OpAdd, NewText)>>
       /\ file.TextFragments[2].Lines = <<Line(OpContext, OldText), Line(OpAdd, NewText)>>

(***************************************************************************)
(* C14 amended: that input gives 2 fragments and no error, the first with  *)
(* Lines (Delete, "old\n"), (Add, "new\n"), the second with Lines          *)
(* (Context, "old\n"), (Context, "new\n").                                 *)
(***************************************************************************)
C14_Example ==
    (input = ExampleInput /\ pc = "done") =>
       /\ err = NoError
       /\ n = 2
       /\ Len(file.TextFragments) = 2
       /\ file.TextFragments[1].Lines = <<Line(OpDelete, OldText), Line(OpAdd, NewText)>>
       /\ file.TextFragments[2].Lines = <<Line(OpContext, OldText), Line(OpContext, NewText)>>

C14_Witness ==
    /\ input = ExampleInput
    /\ pc = "done"
    /\ Len(file.TextFragments) = 2
    /\ lineno = 4

(***************************************************************************)
(* Vocabulary of the declared lengths.                                     *)
(***************************************************************************)
\* no range token of the header line has the sentinel or a '-' as count
DeclaresNoNegative(line) ==
    \A t \in 1..Len(RangeTokens(line)) :
       HasCount(RangeTokens(line)[t]) =>
          /\ CountText(RangeTokens(line)[t]) # Uint64MinusOne
          /\ CountText(RangeTokens(line)[t]) # <<>>
          /\ CountText(RangeTokens(line)[t])[1] # "-"

\* the header line of the group whose body is being parsed
GroupHeader == LineAt(chunkStart - 1)

\* the Context and Delete entries
NonAdd(lines) == Len(lines) - CountOp(lines, OpAdd)

(***************************************************************************)
(* C15 as stated: when the body parser returns nil for a group whose       *)
(* header has no negative length, every fragment's OldLines is the number  *)
(* of Context and Delete entries of its Lines.                             *)
(***************************************************************************)
C15_OldLinesCountEntries ==
    (pc = "append" /\ DeclaresNoNegative(GroupHeader)) =>
       \A i \in 1..ParentCount : frags[i].OldLines = Int64(NonAdd(frags[i].Lines))

(***************************************************************************)
(* C15 amended: when the body parser returns nil for a group whose header  *)
(* has no negative length, every fragment's OldLines is the old length     *)
(* that the header declares for its parent and NewLines the declared new   *)
(* length, whatever the Lines hold.                                        *)
(***************************************************************************)
C15_OldLinesAsDeclared ==
    /\ (pc = "append" /\ chunkStart = 2 /\ GenOk /\ GenNonNegative) =>
          \A i \in 1..ParentCount :
             /\ frags[i].OldLines = RangeTab[gen.olds[i]].len
             /\ frags[i].NewLines = RangeTab[gen.new].len
    /\ (pc = "append" /\ GroupHeader = PlainHeader(ParentCount)) =>
          \A i \in 1..ParentCount :
             /\ frags[i].OldLines = Int64(2)
             /\ frags[i].NewLines = Int64(2)

\* a group parsed to the end whose declared old length is not the number of
\* Context and Delete entries
C15_Witness ==
    /\ pc = "append"
    /\ chunkStart = 2 /\ GenOk /\ GenNonNegative
    /\ \E i \in 1..ParentCount :
          /\ frags[i].OldLines = RangeTab[gen.olds[i]].len
          /\ frags[i].OldLines # Int64(NonAdd(frags[i].Lines))

(***************************************************************************)
(* The parser runs on: a call that can take a step takes it.  Checked on   *)
(* the inputs that are a header and up to MaxLiveBody body lines.          *)
(***************************************************************************)
MaxLiveBody == 2

\* the inputs with a plain header and a body of terminated lines
LiveInit ==
    \E p \in ParentCounts, k \in 0..MaxLiveBody :
       \E b \in Tuples(BodyPool(p), k) :
          InitWith(NoGen, <<PlainHeader(p)>> \o b, FALSE, FALSE)

\* the header parser is called whenever the loop of ParseCombinedTextFragments
\* is at its top: that step always leaves pc = "header"
HeaderCalled == []<>(pc # "header")

LiveSpec ==
    /\ LiveInit
    /\ [][Next]_vars
    /\ HeaderCalled
    /\ WF_vars(CheckFileFlags)
    /\ WF_vars(ParseCombinedTextChunkEnter)
    /\ WF_vars(LineLoop)
    /\ WF_vars(ParseCombinedTextChunkExit)
    /\ WF_vars(AppendFragments)

\* ParseCombinedTextFragments has returned, or was unwound by a panic
CallEnded == pc = "done" \/ pc = "panic"

(***************************************************************************)
(* C16 as stated: on every input the call to ParseCombinedTextFragments    *)
(* eventually ends.                                                        *)
(***************************************************************************)
C16_Terminates == <>CallEnded

(***************************************************************************)
(* Vocabulary of the operation block.                                      *)
(***************************************************************************)
\* the line has N characters or more and one of the first N is not an
\* operation character
BadPrefix(line, parents) == Len(line) >= parents /\ ~BodyShaped(line, parents)

\* the first of the first N characters that is not an operation character
FirstBadChar(line, parents) ==
    line[Min({i \in 1..parents : line[i] \notin {" ", "+", "-", "\\"}})]

\* the first N characters are operation characters and one is a backslash
BackslashInPrefix(line, parents) ==
    /\ BodyShaped(line, parents)
    /\ \E i \in 1..parents : line[i] = "\\"

\* the call failed with 'invalid line operation' for character c on line l
InvalidOpError(e, c, l) == e.msg = MsgInvalidOp /\ e.cause = <<c>> /\ e.line = l

(***************************************************************************)
(* C17 as stated: a pass on a line whose N-character prefix has a          *)
(* character outside {space, '+', '-', '\'} fails with 'invalid line       *)
(* operation' naming that character and the line number, and so does a     *)
(* pass on a line with a '\' in its prefix that is not the no-newline      *)
(* marker.                                                                 *)
(***************************************************************************)
C17_InvalidOpAsStated ==
    [][/\ (pc = "loop" /\ BadPrefix(CurrentLine, ParentCount)) =>
             /\ pc' = "done"
             /\ InvalidOpError(err', FirstBadChar(CurrentLine, ParentCount), lineno)
       /\ (pc = "loop" /\ BackslashInPrefix(CurrentLine, ParentCount) /\ ~MarkerAt(lineno)) =>
             /\ pc' = "done"
             /\ InvalidOpError(err', "\\", lineno)]_vars

(***************************************************************************)
(* C17 amended: a pass on a line whose N-character prefix has a character  *)
(* outside {space, '+', '-', '\'} ends the body loop with no 'invalid line *)
(* operation' error, the line not parsed and still the current line; a     *)
(* pass on a line whose prefix is made of operation characters, one of     *)
(* them '\', and that is not the no-newline marker fails with 'invalid     *)
(* line operation' naming '\' and the line number; the error is never      *)
(* returned for another character.                                         *)
(***************************************************************************)
C17_BadPrefixEndsLoop ==
    [][(pc = "loop" /\ BadPrefix(CurrentLine, ParentCount)) =>
          /\ pc' = "post"
          /\ err' = NoError
          /\ lineno' = lineno
          /\ frags' = frags]_vars

C17_BackslashFails ==
    [][(pc = "loop" /\ BackslashInPrefix(CurrentLine, ParentCount) /\ ~MarkerAt(lineno)) =>
          /\ pc' = "done"
          /\ InvalidOpError(err', "\\", lineno)
          /\ lineno' = lineno]_vars

C17_OnlyBackslash ==
    (pc = "done" /\ err.msg = MsgInvalidOp) => err.cause = <<"\\">>

C17_InvalidOp == C17_BadPrefixEndsLoop /\ C17_BackslashFails /\ []C17_OnlyBackslash

\* the loop has ended without error on a line with a foreign character in
\* its prefix, after a change
C17_Witness ==
    /\ pc = "post"
    /\ BadPrefix(CurrentLine, ParentCount)
    /\ FirstBadChar(CurrentLine, ParentCount) = "x"
    /\ ~noLineChanges
    /\ err = NoError

(***************************************************************************)
(* C18 as stated: a current line that is not empty and shorter than N ends *)
(* the body loop unconsumed and the call returns nil, also when no body    *)
(* line was consumed; 'no content following fragment header' is returned   *)
(* for an empty current line right after the header and for nothing else.  *)
(***************************************************************************)
ShortLine == CurrentLine # <<>> /\ Len(CurrentLine) < ParentCount

C18_ShortEndsLoop ==
    [][(pc = "loop" /\ ShortLine) =>
          /\ pc' = "post"
          /\ lineno' = lineno
          /\ frags' = frags
          /\ err' = NoError]_vars

C18_NoContent ==
    [][(pc = "chunk") =>
          /\ (CurrentLine = <<>>) <=> (err'.msg = MsgNoContent)
          /\ (CurrentLine = <<>>) => (pc' = "done" /\ err'.line = lineno)
          /\ (CurrentLine # <<>>) => (pc' = "loop" /\ err' = NoError)]_vars

C18_OnlyAfterHeader ==
    (err.msg = MsgNoContent) => (pc = "done" /\ lineno = chunkStart /\ CurrentLine = <<>>)

C18_ShortLineNoError ==
    /\ C18_ShortEndsLoop
    /\ [][(pc = "post" /\ ShortLine) =>
             (pc' = "append" /\ lineno' = lineno /\ err' = NoError)]_vars
    /\ C18_NoContent
    /\ []C18_OnlyAfterHeader

(***************************************************************************)
(* C18 amended: such a line ends the body loop unconsumed and without      *)
(* error from the loop; the call then returns nil when a line with a '+'   *)
(* or '-' was consumed before it and 'fragment contains no changes' when   *)
(* none was, as when it is the first line after the header; 'no content    *)
(* following fragment header' is returned for an empty current line right  *)
(* after the header and for nothing else.                                  *)
(***************************************************************************)
C18_ShortLine ==
    /\ C18_ShortEndsLoop
    /\ [][(pc = "post" /\ ShortLine) =>
             /\ lineno' = lineno
             /\ IF ChangeLines(chunkStart, lineno - 1, ParentCount) # {}
                THEN pc' = "append" /\ err' = NoError
                ELSE pc' = "done" /\ err'.msg = MsgNoChanges /\ err'.line = lineno]_vars
    /\ C18_NoContent
    /\ []C18_OnlyAfterHeader

\* a short line right after the header
C18_Witness ==
    /\ pc = "done"
    /\ err.msg = MsgNoChanges
    /\ lineno = chunkStart
    /\ ShortLine

(***************************************************************************)
(* C19 as stated: a pass of the body loop on a line that is just "\n" is   *)
(* a pass with an empty operation block: the line is consumed, nothing is  *)
(* appended and the group goes on with the next line (it ends only at the  *)
(* end of the input).                                                      *)
(***************************************************************************)
C19_BlankLineConsumed ==
    [][(pc = "loop" /\ CurrentLine = <<"\n">>) =>
          /\ lineno' = lineno + 1
          /\ pc' = "loop" \/ (pc' = "post" /\ eof')
          /\ err' = NoError
          /\ \A i \in 1..ParentCount :
                /\ Len(frags'[i].Lines) >= Len(frags[i].Lines)
                /\ SubSeq(frags'[i].Lines, 1, Len(frags[i].Lines)) = frags[i].Lines]_vars

(***************************************************************************)
(* Vocabulary of the token signs.                                          *)
(***************************************************************************)
\* a recognized header with closing marker and N+1 range tokens
TokenisedHeader(line) ==
    /\ ~NotCombinedHeader(line)
    /\ ~LacksClosingMarker(line)
    /\ Len(RangeTokens(line)) = LeadingAts(line)

\* the sign that token t of the line must begin with
SignOf(line, t) == IF t = Len(RangeTokens(line)) THEN "+" ELSE "-"

\* a range token is empty or begins with another character than its sign
WrongSign(line) ==
    \E t \in 1..Len(RangeTokens(line)) :
       \/ RangeTokens(line)[t] = <<>>
       \/ RangeTokens(line)[t][1] # SignOf(line, t)

(***************************************************************************)
(* C20 as stated: the header parser returns for every line; a header it    *)
(* accepts has N tokens that begin with '-' and then one that begins with  *)
(* '+'; a header with an empty token or a token that begins with another   *)
(* character is rejected with 'invalid fragment header'.                   *)
(***************************************************************************)
C20_TokenSigns ==
    [][(pc = "header") =>
          /\ pc' # "panic"
          /\ (pc' = "check") => ~WrongSign(CurrentLine)
          /\ (TokenisedHeader(CurrentLine) /\ WrongSign(CurrentLine)) =>
                (pc' = "done" /\ err'.msg = MsgInvalidHeader /\ err'.line = lineno)]_vars

====
